---------------------------- MODULE Spec2Model ----------------------------
(***************************************************************************)
(* A model of crawler.ts: the command line entry point main(), the class  *)
(* AccessibilityCrawler (initialize, crawl, the URL helpers,               *)
(* generateMarkdownReport, close) and the process's exit code.             *)
(*                                                                         *)
(* crawl() is an async recursive method.  It runs on one thread and gives  *)
(* up control only at an await, so the model has one action per awaited    *)
(* call and a stack of frames for the recursion.  The browser, the pages,  *)
(* axe-core, Lighthouse and the file system are the environment: each      *)
(* awaited call either returns a value drawn from a bounded set or throws. *)
(***************************************************************************)
EXTENDS Integers, Sequences, FiniteSets

(***************************************************************************)
(* Bounds of the model.                                                    *)
(***************************************************************************)
\* The largest --max-pages value tried besides the default.
MaxBudget == 3
\* The longest list of links extractLinks returns.
MaxLinks == 2
\* The most violations axe-core reports for one page (report specification).
MaxViolations == 2
\* The most page results rendered (report specification).
MaxResults == 2

(***************************************************************************)
(* Strings that the code takes apart are sequences of one-character        *)
(* strings.                                                                *)
(***************************************************************************)
UpperChars ==
    << "A", "B", "C", "D", "E", "F", "G", "H", "I", "J", "K", "L", "M",
       "N", "O", "P", "Q", "R", "S", "T", "U", "V", "W", "X", "Y", "Z" >>

LowerChars ==
    << "a", "b", "c", "d", "e", "f", "g", "h", "i", "j", "k", "l", "m",
       "n", "o", "p", "q", "r", "s", "t", "u", "v", "w", "x", "y", "z" >>

\* String.prototype.toLowerCase, one character.
LowerChar(c) ==
    IF \E i \in 1..Len(UpperChars) : UpperChars[i] = c
    THEN LowerChars[CHOOSE i \in 1..Len(UpperChars) : UpperChars[i] = c]
    ELSE c

\* String.prototype.toLowerCase.
toLowerCase(s) == [i \in 1..Len(s) |-> LowerChar(s[i])]

\* String.prototype.endsWith.
endsWith(s, suffix) ==
    /\ Len(suffix) <= Len(s)
    /\ SubSeq(s, Len(s) - Len(suffix) + 1, Len(s)) = suffix

(***************************************************************************)
(* URLs.  A URL string is the record of the parts the WHATWG parser finds  *)
(* in it: whether it parses at all, its origin (scheme, host, port), its   *)
(* path as written and its fragment.  NoFrag is the absent fragment.       *)
(***************************************************************************)
NoFrag == "<none>"

Url(origin, path, frag) ==
    [valid |-> TRUE, origin |-> origin, path |-> path, frag |-> frag]

\* A string new URL() throws on.
Malformed == [valid |-> FALSE, origin |-> "", path |-> << >>, frag |-> NoFrag]

ExampleOrigin == "https://example.com"
OtherOrigin == "https://other.org"

\* The start URL as given on the command line: https://example.com
StartUrl == Url(ExampleOrigin, << >>, NoFrag)
HomeUrl == Url(ExampleOrigin, << "/" >>, NoFrag)
PageA == Url(ExampleOrigin, << "/", "a" >>, NoFrag)
PageAx == Url(ExampleOrigin, << "/", "a" >>, "x")
PageAy == Url(ExampleOrigin, << "/", "a" >>, "y")
PageB == Url(ExampleOrigin, << "/", "b" >>, NoFrag)
PageC == Url(ExampleOrigin, << "/", "c" >>, NoFrag)
Foreign == Url(OtherOrigin, << "/", "a" >>, NoFrag)
PdfLower == Url(ExampleOrigin, << "/", "d", ".", "p", "d", "f" >>, NoFrag)
PdfUpper == Url(ExampleOrigin, << "/", "d", ".", "P", "D", "F" >>, NoFrag)

\* URL.pathname: the path of a special-scheme URL is never empty.
pathname(url) == IF url.path = << >> THEN << "/" >> ELSE url.path

\* URL.href of a parsed URL.
href(url) == [url EXCEPT !.path = pathname(url)]

\* The mutation of normalizeUrl that forgets to clear the fragment.
normalizeUrlKeepsHash(url) == IF url.valid THEN href(url) ELSE url

\* normalizeUrl: parse, clear the hash, serialise; the input on a parse error.
normalizeUrl(url) ==
    IF url.valid THEN href([url EXCEPT !.frag = NoFrag]) ELSE url

\* The deny-list of isWebPage.
fileExtensions ==
    { << ".", "p", "d", "f" >>,
      << ".", "z", "i", "p" >>,
      << ".", "d", "o", "c" >>,
      << ".", "d", "o", "c", "x" >>,
      << ".", "x", "l", "s" >>,
      << ".", "x", "l", "s", "x" >>,
      << ".", "p", "p", "t" >>,
      << ".", "p", "p", "t", "x" >>,
      << ".", "j", "p", "g" >>,
      << ".", "j", "p", "e", "g" >>,
      << ".", "p", "n", "g" >>,
      << ".", "g", "i", "f" >>,
      << ".", "s", "v", "g" >>,
      << ".", "w", "e", "b", "p" >>,
      << ".", "i", "c", "o" >>,
      << ".", "m", "p", "4" >>,
      << ".", "a", "v", "i" >>,
      << ".", "m", "o", "v" >>,
      << ".", "w", "m", "v" >>,
      << ".", "m", "p", "3" >>,
      << ".", "w", "a", "v" >>,
      << ".", "x", "m", "l" >>,
      << ".", "j", "s", "o", "n" >>,
      << ".", "c", "s", "v" >>,
      << ".", "t", "x", "t" >>,
      << ".", "d", "m", "g" >>,
      << ".", "e", "x", "e" >>,
      << ".", "p", "k", "g" >>,
      << ".", "d", "e", "b" >>,
      << ".", "r", "p", "m" >> }

\* The mutation of isWebPage that accepts every URL.
isWebPageAlways(url) == TRUE

\* isWebPage: the lower-cased pathname ends in no deny-listed extension;
\* true when the URL does not parse.
isWebPage(url) ==
    IF url.valid
    THEN ~ \E ext \in fileExtensions : endsWith(toLowerCase(pathname(url)), ext)
    ELSE TRUE

\* The mutation of isInternalUrl that accepts every parseable URL.
isInternalUrlAlways(url, base) == url.valid

\* isInternalUrl: the URL's origin is the base origin; false when it does
\* not parse.
isInternalUrl(url, base) == IF url.valid THEN url.origin = base ELSE FALSE


(***************************************************************************)
(* The command line.  args[0] is missing, or a flag, or a URL string; the  *)
(* value after --max-pages is missing or a string parseInt reads as NaN or *)
(* as an integer.                                                          *)
(***************************************************************************)
StartArgs ==
    { [present |-> FALSE, dashes |-> FALSE, url |-> Malformed],
      [present |-> TRUE, dashes |-> TRUE, url |-> Malformed],
      [present |-> TRUE, dashes |-> FALSE, url |-> Malformed],
      [present |-> TRUE, dashes |-> FALSE, url |-> StartUrl] }

MaxPagesArgs ==
    { [given |-> FALSE, isNaN |-> FALSE, n |-> 0],
      [given |-> TRUE, isNaN |-> TRUE, n |-> 0] }
    \cup { [given |-> TRUE, isNaN |-> FALSE, n |-> k] : k \in -1..MaxBudget }

\* The default of --max-pages and of the constructor's maxPages.
DefaultMaxPages == 10

\* main: parseInt(args[maxPagesIndex + 1]) || 10, and 10 without the flag.
ParseMaxPages(arg) ==
    IF arg.given
    THEN IF arg.isNaN \/ arg.n = 0 THEN DefaultMaxPages ELSE arg.n
    ELSE DefaultMaxPages

\* main: args.length === 0 || !args[0] || args[0].startsWith("--")
UsageError(start) == ~ start.present \/ start.dashes

(***************************************************************************)
(* What the environment returns.                                           *)
(***************************************************************************)
\* The hrefs a page's anchors may carry: absolute http(s) URLs.
SiteUrls == { HomeUrl, PageA, PageAx, PageB, Foreign, PdfLower, PdfUpper }

\* An href of an extracted list that the loop has not read yet.  The
\* anchors of a page are the environment's: the model draws the length of
\* the list when extractLinks returns and each href when the loop reads it,
\* which gives the runs that drawing the whole list at once gives, since
\* the loop reads every element once, in order, and nothing else reads it.
AnyHref == [valid |-> TRUE, origin |-> "?", path |-> << >>, frag |-> NoFrag]

\* The values the element `link` of an extracted list may have.
Hrefs(link) == IF link = AnyHref THEN SiteUrls ELSE { link }

LinkLists == { [i \in 1..n |-> AnyHref] : n \in 0..MaxLinks }

NullImpact == "null"
Impacts == << "critical", "serious", "moderate", "minor" >>
ImpactValues == { Impacts[i] : i \in 1..Len(Impacts) } \cup { NullImpact }

Violation(id, impact) == [id |-> id, impact |-> impact]

\* The violation lists axe-core returns during a crawl.
CrawlAxeResults == { << Violation("image-alt", "critical") >> }

\* lighthouseResults: null, or the accessibility category's score times 100.
NoLighthouse == -1
CrawlLighthouse == { NoLighthouse, 100 }

(***************************************************************************)
(* The state.                                                              *)
(***************************************************************************)
VARIABLES
    argv,          \* process.argv.slice(2): [start, maxPagesArg]
    mpc,           \* where main() is
    exitCode,      \* the process's exit code, NoExit while it runs
    constructed,   \* new AccessibilityCrawler(...) has returned
    baseUrl,       \* AccessibilityCrawler.baseUrl
    maxPages,      \* AccessibilityCrawler.maxPages
    browser,       \* AccessibilityCrawler.browser: "null", "open", "closed"
    context,       \* AccessibilityCrawler.context: "null", "open", "closed"
    visitedUrls,   \* AccessibilityCrawler.visitedUrls
    results,       \* AccessibilityCrawler.results
    stack,         \* the frames of the running crawl() calls, innermost last
    openPages,     \* pages opened by newPage() and not closed
    report,        \* what generateMarkdownReport returned
    written,       \* writeFileSync has returned
    loadCount,     \* history: page.goto calls per URL
    analyzeCount,  \* history: AxeBuilder.analyze calls per URL
    extracted,     \* history: the lists extractLinks returned with their hrefs
    failed,        \* history: the targets whose crawl ended in the catch block
    closeLog       \* history: the close calls of close(), in order

vars ==
    << argv, mpc, exitCode, constructed, baseUrl, maxPages, browser, context,
       visitedUrls, results, stack, openPages, report, written,
       loadCount, analyzeCount, extracted, failed, closeLog >>

crawlerVars == << constructed, baseUrl, maxPages >>
browserVars == << browser, context >>
crawlVars == << visitedUrls, results, stack, openPages >>
reportVars == << report, written >>
historyVars ==
    << loadCount, analyzeCount, extracted, failed, closeLog >>

NoExit == -1
NoReport == [rendered |-> FALSE]

\* Every canonical URL the model can meet.
CanonicalUrls ==
    { normalizeUrl(u) : u \in SiteUrls \cup { StartUrl, PageAy, PageC } }

Init ==
    /\ argv \in [start : StartArgs, maxPagesArg : MaxPagesArgs]
    /\ mpc = "start"
    /\ exitCode = NoExit
    /\ constructed = FALSE
    /\ baseUrl = ""
    /\ maxPages = DefaultMaxPages
    /\ browser = "null"
    /\ context = "null"
    /\ visitedUrls = { }
    /\ results = << >>
    /\ stack = << >>
    /\ openPages = 0
    /\ report = NoReport
    /\ written = FALSE
    /\ loadCount = [u \in CanonicalUrls |-> 0]
    /\ analyzeCount = [u \in CanonicalUrls |-> 0]
    /\ extracted = { }
    /\ failed = { }
    /\ closeLog = << >>

(***************************************************************************)
(* How the process ends.                                                   *)
(***************************************************************************)
\* process.exit(code): the process ends at once; no finally block runs.
ProcessExit(code) ==
    /\ exitCode' = code
    /\ mpc' = "exited"

\* main()'s promise rejects and nothing handles it: the runtime prints the
\* error and the process ends with code 1.
UnhandledRejection == ProcessExit(1)

(***************************************************************************)
(* main, up to the crawl.                                                  *)
(***************************************************************************)
\* The usage check.
MainUsage ==
    /\ mpc = "start"
    /\ UsageError(argv.start)
    /\ ProcessExit(1)
    /\ UNCHANGED << argv, crawlerVars, browserVars, crawlVars, reportVars,
                    historyVars >>

\* new URL(startUrl).hostname throws on a malformed start URL, outside the
\* try block.
MainBadUrl ==
    /\ mpc = "start"
    /\ ~ UsageError(argv.start)
    /\ ~ argv.start.url.valid
    /\ UnhandledRejection
    /\ UNCHANGED << argv, crawlerVars, browserVars, crawlVars, reportVars,
                    historyVars >>

\* The flags are read and the crawler is constructed.
MainConstruct ==
    /\ mpc = "start"
    /\ ~ UsageError(argv.start)
    /\ argv.start.url.valid
    /\ constructed' = TRUE
    /\ baseUrl' = argv.start.url.origin
    /\ maxPages' = ParseMaxPages(argv.maxPagesArg)
    /\ mpc' = "launch"
    /\ UNCHANGED << argv, exitCode, browserVars, crawlVars, reportVars,
                    historyVars >>

\* main's catch block: console.error, process.exit(1).
MainCatch ==
    /\ ProcessExit(1)
    /\ UNCHANGED << argv, crawlerVars, crawlVars, historyVars >>

\* initialize: chromium.launch() returns.
InitializeLaunch ==
    /\ mpc = "launch"
    /\ browser' = "open"
    /\ mpc' = "newContext"
    /\ UNCHANGED << argv, exitCode, crawlerVars, context, crawlVars,
                    reportVars, historyVars >>

\* initialize: chromium.launch() throws.
InitializeLaunchThrows ==
    /\ mpc = "launch"
    /\ MainCatch
    /\ UNCHANGED << browserVars, reportVars >>

\* initialize: browser.newContext() returns.
InitializeNewContext ==
    /\ mpc = "newContext"
    /\ context' = "open"
    /\ mpc' = "crawl"
    /\ UNCHANGED << argv, exitCode, crawlerVars, browser, crawlVars,
                    reportVars, historyVars >>

\* initialize: browser.newContext() throws.
InitializeNewContextThrows ==
    /\ mpc = "newContext"
    /\ MainCatch
    /\ UNCHANGED << browserVars, reportVars >>

(***************************************************************************)
(* crawl.                                                                  *)
(***************************************************************************)
Top == stack[Len(stack)]
Callers == SubSeq(stack, 1, Len(stack) - 1)

Range(s) == { s[i] : i \in 1..Len(s) }

\* The loop variable `link` before the loop's first turn.
NoLink == [valid |-> FALSE, origin |-> "-", path |-> << >>, frag |-> NoFrag]

\* The frame of a crawl() call that has reserved its URL: normalizedUrl,
\* the awaited call it is at, axeResults, links and the loop's link.
Frame(url) ==
    [url |-> url, pc |-> "newPage", axe |-> << >>, links |-> << >>,
     link |-> NoLink]

\* The mutation of the budget test that lets one page too many through.
BudgetExhaustedOffByOne == Cardinality(visitedUrls) > maxPages

\* this.visitedUrls.size >= this.maxPages
BudgetExhausted == Cardinality(visitedUrls) >= maxPages

\* The mutation of the visited test that never finds a URL.
AlreadyVisitedNever(url) == FALSE

\* this.visitedUrls.has(normalizedUrl)
AlreadyVisited(url) == url \in visitedUrls

\* The mutation of the early returns that tests neither scope nor type.
RejectedUnlessNew(url) ==
    \/ browser = "null"
    \/ context = "null"
    \/ BudgetExhausted
    \/ AlreadyVisited(normalizeUrl(url))

\* The two early returns of crawl(url), after normalisation.
Rejected(url) ==
    \/ browser = "null"
    \/ context = "null"
    \/ BudgetExhausted
    \/ AlreadyVisited(normalizeUrl(url))
    \/ ~ isInternalUrl(normalizeUrl(url), baseUrl)
    \/ ~ isWebPage(normalizeUrl(url))

\* The mutation of crawl that enters the try block without visitedUrls.add.
CrawlCallUnreserved(url, callers) ==
    IF Rejected(url)
    THEN /\ stack' = callers
         /\ UNCHANGED visitedUrls
    ELSE /\ UNCHANGED visitedUrls
         /\ stack' = Append(callers, Frame(normalizeUrl(url)))

\* crawl(url) up to its first await, called with `callers` on the stack:
\* the early returns, or visitedUrls.add and the entry into the try block.
CrawlCall(url, callers) ==
    IF Rejected(url)
    THEN /\ stack' = callers
         /\ UNCHANGED visitedUrls
    ELSE /\ visitedUrls' = visitedUrls \cup { normalizeUrl(url) }
         /\ stack' = Append(callers, Frame(normalizeUrl(url)))

\* The top frame moves on inside the try block.
Step(pc) == stack' = [stack EXCEPT ![Len(stack)].pc = pc]

\* crawl returns to its caller.
Return == stack' = Callers

\* The links the caller had still to visit when this call was made.
Siblings ==
    IF Len(stack) > 1 THEN Range(stack[Len(stack) - 1].links) ELSE { }

\* The mutation of crawl without its try block: the exception leaves every
\* crawl call on the stack.
ThrowsToMain(stage) ==
    /\ failed' = failed \cup
           { [url |-> Top.url, stage |-> stage, siblings |-> Siblings] }
    /\ stack' = << >>

\* An awaited call of the try block throws: the catch block logs, and crawl
\* returns.  The page, when it was opened, is not closed.
Throws(stage) ==
    /\ failed' = failed \cup
           { [url |-> Top.url, stage |-> stage, siblings |-> Siblings] }
    /\ Return

Running(pc) ==
    /\ mpc = "crawling"
    /\ stack # << >>
    /\ Top.pc = pc

\* main: await crawler.crawl(startUrl)
MainCrawl ==
    /\ mpc = "crawl"
    /\ mpc' = "crawling"
    /\ CrawlCall(argv.start.url, << >>)
    /\ UNCHANGED << argv, exitCode, crawlerVars, browserVars, results,
                    openPages, reportVars, loadCount, analyzeCount,
                    extracted, failed, closeLog >>

\* context.newPage() returns.
NewPage ==
    /\ Running("newPage")
    /\ openPages' = openPages + 1
    /\ Step("goto")
    /\ UNCHANGED << argv, mpc, exitCode, crawlerVars, browserVars,
                    visitedUrls, results, reportVars, historyVars >>

\* context.newPage() throws.
NewPageThrows ==
    /\ Running("newPage")
    /\ Throws("newPage")
    /\ UNCHANGED << argv, mpc, exitCode, crawlerVars, browserVars,
                    visitedUrls, results, openPages, reportVars, loadCount,
                    analyzeCount, extracted, closeLog >>

\* page.goto(normalizedUrl) returns.
Goto ==
    /\ Running("goto")
    /\ loadCount' = [loadCount EXCEPT ![Top.url] = @ + 1]
    /\ Step("analyze")
    /\ UNCHANGED << argv, mpc, exitCode, crawlerVars, browserVars,
                    visitedUrls, results, openPages, reportVars,
                    analyzeCount, extracted, failed, closeLog >>

\* The mutation of the failed navigation that releases the reservation.
GotoThrowsReleases ==
    /\ Running("goto")
    /\ loadCount' = [loadCount EXCEPT ![Top.url] = @ + 1]
    /\ Throws("goto")
    /\ visitedUrls' = visitedUrls \ { Top.url }
    /\ UNCHANGED << argv, mpc, exitCode, crawlerVars, browserVars,
                    results, openPages, reportVars,
                    analyzeCount, extracted, closeLog >>

\* page.goto(normalizedUrl) throws.
GotoThrows ==
    /\ Running("goto")
    /\ loadCount' = [loadCount EXCEPT ![Top.url] = @ + 1]
    /\ Throws("goto")
    /\ UNCHANGED << argv, mpc, exitCode, crawlerVars, browserVars,
                    visitedUrls, results, openPages, reportVars,
                    analyzeCount, extracted, closeLog >>

\* new AxeBuilder({ page }).analyze() returns.
Analyze ==
    /\ Running("analyze")
    /\ \E violations \in CrawlAxeResults :
           stack' = [stack EXCEPT ![Len(stack)].pc = "lighthouse",
                                  ![Len(stack)].axe = violations]
    /\ analyzeCount' = [analyzeCount EXCEPT ![Top.url] = @ + 1]
    /\ UNCHANGED << argv, mpc, exitCode, crawlerVars, browserVars,
                    visitedUrls, results, openPages, reportVars, loadCount,
                    extracted, failed, closeLog >>

\* new AxeBuilder({ page }).analyze() throws.
AnalyzeThrows ==
    /\ Running("analyze")
    /\ analyzeCount' = [analyzeCount EXCEPT ![Top.url] = @ + 1]
    /\ Throws("analyze")
    /\ UNCHANGED << argv, mpc, exitCode, crawlerVars, browserVars,
                    visitedUrls, results, openPages, reportVars, loadCount,
                    extracted, closeLog >>

PageResult(url, violations, lighthouse) ==
    [url |-> url, violations |-> violations, lighthouse |-> lighthouse]

\* The mutation of crawl that extracts links whatever the budget.
PushResultThenExtract(lighthouse) ==
    /\ results' = Append(results, PageResult(Top.url, Top.axe, lighthouse))
    /\ Step("extractLinks")

\* results.push with lighthouseResults = `lighthouse`, and the budget test
\* that decides whether links are extracted.
PushResult(lighthouse) ==
    /\ results' = Append(results, PageResult(Top.url, Top.axe, lighthouse))
    /\ IF Cardinality(visitedUrls) < maxPages
       THEN Step("extractLinks")
       ELSE Step("closeOnly")

\* lighthouse(...) returns a result or undefined; then results.push.
Lighthouse ==
    /\ Running("lighthouse")
    /\ \E lighthouse \in CrawlLighthouse : PushResult(lighthouse)
    /\ UNCHANGED << argv, mpc, exitCode, crawlerVars, browserVars,
                    visitedUrls, openPages, reportVars, historyVars >>

\* The mutation of crawl without the inner try block: a throwing
\* lighthouse(...) reaches crawl's catch block.
LighthouseThrowsUncaught ==
    /\ Running("lighthouse")
    /\ Throws("lighthouse")
    /\ UNCHANGED << argv, mpc, exitCode, crawlerVars, browserVars,
                    visitedUrls, results, openPages, reportVars, loadCount,
                    analyzeCount, extracted, closeLog >>

\* lighthouse(...) throws: the inner catch block logs, lighthouseResults
\* stays null; then results.push.
LighthouseThrows ==
    /\ Running("lighthouse")
    /\ PushResult(NoLighthouse)
    /\ UNCHANGED << argv, mpc, exitCode, crawlerVars, browserVars,
                    visitedUrls, openPages, reportVars, historyVars >>

\* extractLinks(page) returns `links`.
ExtractLinksReturns(links) ==
    /\ Running("extractLinks")
    /\ stack' = [stack EXCEPT ![Len(stack)].pc = "closePage",
                              ![Len(stack)].links = links]
    /\ UNCHANGED << argv, mpc, exitCode, crawlerVars, browserVars,
                    visitedUrls, results, openPages, reportVars, loadCount,
                    analyzeCount, failed, closeLog >>

\* extractLinks(page) returns the hrefs of the page's anchors, which are
\* drawn when the loop reads them.
ExtractLinks ==
    /\ \E links \in LinkLists : ExtractLinksReturns(links)
    /\ UNCHANGED extracted

\* extractLinks(page) throws.
ExtractLinksThrows ==
    /\ Running("extractLinks")
    /\ Throws("extractLinks")
    /\ UNCHANGED << argv, mpc, exitCode, crawlerVars, browserVars,
                    visitedUrls, results, openPages, reportVars, loadCount,
                    analyzeCount, extracted, closeLog >>

\* page.close() returns, before the loop over the links.
ClosePage ==
    /\ Running("closePage")
    /\ openPages' = openPages - 1
    /\ Step("loop")
    /\ UNCHANGED << argv, mpc, exitCode, crawlerVars, browserVars,
                    visitedUrls, results, reportVars, historyVars >>

\* page.close() throws, before the loop over the links.
ClosePageThrows ==
    /\ Running("closePage")
    /\ Throws("closePage")
    /\ UNCHANGED << argv, mpc, exitCode, crawlerVars, browserVars,
                    visitedUrls, results, openPages, reportVars, loadCount,
                    analyzeCount, extracted, closeLog >>

\* The mutation of the loop that takes the links from the end of the list.
LoopCrawlBackwards ==
    /\ Running("loop")
    /\ Top.links # << >>
    /\ ~ BudgetExhausted
    /\ \E link \in Hrefs(Top.links[Len(Top.links)]) :
           CrawlCall(link,
                     [stack EXCEPT
                         ![Len(stack)].links = SubSeq(@, 1, Len(@) - 1),
                         ![Len(stack)].link = link])
    /\ UNCHANGED << argv, mpc, exitCode, crawlerVars, browserVars, results,
                    openPages, reportVars, loadCount, analyzeCount,
                    extracted, failed, closeLog >>

\* One turn of the loop: await this.crawl(link) for the next link.
LoopCrawl ==
    /\ Running("loop")
    /\ Top.links # << >>
    /\ ~ BudgetExhausted
    /\ \E link \in Hrefs(Head(Top.links)) :
           CrawlCall(link, [stack EXCEPT ![Len(stack)].links = Tail(@),
                                         ![Len(stack)].link = link])
    /\ UNCHANGED << argv, mpc, exitCode, crawlerVars, browserVars, results,
                    openPages, reportVars, loadCount, analyzeCount,
                    extracted, failed, closeLog >>

\* The loop's break: the budget is exhausted and links are left.
LoopBreak ==
    /\ Running("loop")
    /\ Top.links # << >>
    /\ BudgetExhausted
    /\ Return
    /\ UNCHANGED << argv, mpc, exitCode, crawlerVars, browserVars,
                    visitedUrls, results, openPages, reportVars, historyVars >>

\* The loop ends: every link was passed to crawl.
LoopEnd ==
    /\ Running("loop")
    /\ Top.links = << >>
    /\ Return
    /\ UNCHANGED << argv, mpc, exitCode, crawlerVars, browserVars,
                    visitedUrls, results, openPages, reportVars, historyVars >>

\* page.close() returns, in the branch without link extraction.
CloseOnly ==
    /\ Running("closeOnly")
    /\ openPages' = openPages - 1
    /\ Return
    /\ UNCHANGED << argv, mpc, exitCode, crawlerVars, browserVars,
                    visitedUrls, results, reportVars, historyVars >>

\* page.close() throws, in the branch without link extraction.
CloseOnlyThrows ==
    /\ Running("closeOnly")
    /\ Throws("closeOnly")
    /\ UNCHANGED << argv, mpc, exitCode, crawlerVars, browserVars,
                    visitedUrls, results, openPages, reportVars, loadCount,
                    analyzeCount, extracted, closeLog >>

\* crawler.crawl(startUrl) has returned to main.
MainCrawlReturns ==
    /\ mpc = "crawling"
    /\ stack = << >>
    /\ mpc' = "report"
    /\ UNCHANGED << argv, exitCode, crawlerVars, browserVars, crawlVars,
                    reportVars, historyVars >>

(***************************************************************************)
(* generateMarkdownReport.  The markdown is modelled by its structure: the *)
(* header and summary numbers, and one section per page result with the    *)
(* blocks the code appends, in the order it appends them.  The list of     *)
(* failed Lighthouse audits and the affected-element snippets are left     *)
(* out.                                                                    *)
(***************************************************************************)
RECURSIVE SumSeq(_)
SumSeq(s) == IF s = << >> THEN 0 ELSE Head(s) + SumSeq(Tail(s))

\* The mutation of the filter that keeps every violation.
FilterImpactAny(violations, impact) == violations

\* violations.filter((v) => v.impact === impact)
FilterImpact(violations, impact) ==
    SelectSeq(violations, LAMBDA v : v.impact = impact)

\* The mutation of the grouping that drops the last bucket.
ByImpactWithoutMinor(violations) ==
    [i \in 1..(Len(Impacts) - 1) |->
        [impact |-> Impacts[i],
         violations |-> FilterImpact(violations, Impacts[i])]]

\* The mutation of the grouping that renders the buckets in reverse.
ByImpactReversed(violations) ==
    [i \in 1..Len(Impacts) |->
        [impact |-> Impacts[Len(Impacts) + 1 - i],
         violations |->
             FilterImpact(violations, Impacts[Len(Impacts) + 1 - i])]]

\* byImpact: the four buckets, in the order of the object literal's keys.
ByImpact(violations) ==
    [i \in 1..Len(Impacts) |->
        [impact |-> Impacts[i],
         violations |-> FilterImpact(violations, Impacts[i])]]

\* The groups the loop renders: it skips the empty buckets.
RenderedGroups(violations) ==
    SelectSeq(ByImpact(violations), LAMBDA g : g.violations # << >>)

\* The mutation of the test that never takes the no-violations branch.
NoViolationsFoundNever(pageResult) == FALSE

\* pageResult.axeResults.violations.length === 0
NoViolationsFound(pageResult) == Len(pageResult.violations) = 0

\* The section of one page result: noViolations is the "No violations
\* found!" line, violationsSection the "Axe-core Violations (n)" heading
\* with its groups.
Section(pageResult) ==
    [url |-> pageResult.url,
     score |-> pageResult.lighthouse,
     noViolations |-> NoViolationsFound(pageResult),
     violationsSection |-> ~ NoViolationsFound(pageResult),
     violationCount |-> Len(pageResult.violations),
     groups |-> IF NoViolationsFound(pageResult)
                THEN << >>
                ELSE RenderedGroups(pageResult.violations)]

\* The scores of the pages that have a Lighthouse result.
LighthouseScores(rs) ==
    LET scored == SelectSeq(rs, LAMBDA r : r.lighthouse # NoLighthouse)
    IN  [i \in 1..Len(scored) |-> scored[i].lighthouse]

\* avgLighthouseScore: "N/A", or the mean to one decimal, in tenths.
NotAvailable == -1
AverageScore(rs) ==
    IF Len(LighthouseScores(rs)) > 0
    THEN (20 * SumSeq(LighthouseScores(rs)) + Len(LighthouseScores(rs)))
             \div (2 * Len(LighthouseScores(rs)))
    ELSE NotAvailable

generateMarkdownReport(rs) ==
    [rendered |-> TRUE,
     pagesAnalyzed |-> Len(rs),
     totalViolations |->
         SumSeq([i \in 1..Len(rs) |-> Len(rs[i].violations)]),
     criticalIssues |->
         SumSeq([i \in 1..Len(rs) |->
                    Len(FilterImpact(rs[i].violations, "critical"))]),
     seriousIssues |->
         SumSeq([i \in 1..Len(rs) |->
                    Len(FilterImpact(rs[i].violations, "serious"))]),
     avgLighthouseScore |-> AverageScore(rs),
     sections |-> [i \in 1..Len(rs) |-> Section(rs[i])]]

(***************************************************************************)
(* main, after the crawl; close.                                           *)
(***************************************************************************)
\* generateMarkdownReport, and writeFileSync returns.
MainReport ==
    /\ mpc = "report"
    /\ report' = generateMarkdownReport(results)
    /\ written' = TRUE
    /\ mpc' = "closeContext"
    /\ UNCHANGED << argv, exitCode, crawlerVars, browserVars, crawlVars,
                    historyVars >>

\* generateMarkdownReport, and writeFileSync throws.
MainWriteThrows ==
    /\ mpc = "report"
    /\ report' = generateMarkdownReport(results)
    /\ MainCatch
    /\ UNCHANGED << browserVars, written >>

CloseCall(what, ok) == [what |-> what, ok |-> ok]

\* close, from main's finally block: context.close() returns (or there is
\* no context).
CloseContext ==
    /\ mpc = "closeContext"
    /\ IF context # "null"
       THEN /\ context' = "closed"
            /\ closeLog' = Append(closeLog, CloseCall("context", TRUE))
       ELSE UNCHANGED << context, closeLog >>
    /\ mpc' = "closeBrowser"
    /\ UNCHANGED << argv, exitCode, crawlerVars, browser, crawlVars,
                    reportVars, loadCount, analyzeCount, extracted, failed >>

\* close: context.close() throws; close and then main reject.
CloseContextThrows ==
    /\ mpc = "closeContext"
    /\ context # "null"
    /\ closeLog' = Append(closeLog, CloseCall("context", FALSE))
    /\ UnhandledRejection
    /\ UNCHANGED << argv, crawlerVars, browserVars, crawlVars, reportVars,
                    loadCount, analyzeCount, extracted, failed >>

\* close: browser.close() returns (or there is no browser); main returns and
\* the process ends with nothing left to run.
CloseBrowser ==
    /\ mpc = "closeBrowser"
    /\ IF browser # "null"
       THEN /\ browser' = "closed"
            /\ closeLog' = Append(closeLog, CloseCall("browser", TRUE))
       ELSE UNCHANGED << browser, closeLog >>
    /\ ProcessExit(0)
    /\ UNCHANGED << argv, crawlerVars, context, crawlVars, reportVars,
                    loadCount, analyzeCount, extracted, failed >>

\* close: browser.close() throws; close and then main reject.
CloseBrowserThrows ==
    /\ mpc = "closeBrowser"
    /\ browser # "null"
    /\ closeLog' = Append(closeLog, CloseCall("browser", FALSE))
    /\ UnhandledRejection
    /\ UNCHANGED << argv, crawlerVars, browserVars, crawlVars, reportVars,
                    loadCount, analyzeCount, extracted, failed >>

(***************************************************************************)
(* The program.                                                            *)
(***************************************************************************)
ArgsNext ==
    \/ MainUsage
    \/ MainBadUrl

StartNext ==
    \/ MainConstruct
    \/ InitializeLaunch
    \/ InitializeLaunchThrows
    \/ InitializeNewContext
    \/ InitializeNewContextThrows
    \/ MainCrawl
    \/ MainCrawlReturns

CrawlNext ==
    \/ NewPage
    \/ NewPageThrows
    \/ Goto
    \/ GotoThrows
    \/ Analyze
    \/ AnalyzeThrows
    \/ Lighthouse
    \/ LighthouseThrows
    \/ ExtractLinksThrows
    \/ ClosePage
    \/ ClosePageThrows
    \/ LoopCrawl
    \/ LoopBreak
    \/ LoopEnd
    \/ CloseOnly
    \/ CloseOnlyThrows

ExitNext ==
    \/ MainReport
    \/ MainWriteThrows
    \/ CloseContext
    \/ CloseContextThrows
    \/ CloseBrowser
    \/ CloseBrowserThrows

Next == ArgsNext \/ StartNext \/ CrawlNext \/ ExtractLinks \/ ExitNext

Spec == Init /\ [][Next]_vars

(***************************************************************************)
(* The program on a site whose pages are known: the start page carries     *)
(* links to two pages of the site, to a page of another origin and to a    *)
(* PDF, in some order; every other page carries at most one link, to a     *)
(* page of the site.  The budget is a number given on the command line.    *)
(***************************************************************************)
RECURSIVE Orderings(_)
Orderings(S) ==
    IF S = { }
    THEN { << >> }
    ELSE UNION { { << x >> \o p : p \in Orderings(S \ { x }) } : x \in S }

SitePages == { HomeUrl, PageA, PageB, PageC }

SiteMenu(url) ==
    IF url = HomeUrl
    THEN Orderings({ PageA, PageB, Foreign, PdfLower })
    ELSE { << >> } \cup { << u >> : u \in SitePages }

\* extractLinks(page) returns the hrefs of the page's anchors; the history
\* keeps the list.
ExtractSiteLinks ==
    /\ Running("extractLinks")
    /\ \E links \in SiteMenu(Top.url) :
           /\ ExtractLinksReturns(links)
           /\ extracted' = extracted \cup
                  { [url |-> Top.url, links |-> links] }

SiteInit ==
    /\ Init
    /\ argv.start.present
    /\ ~ argv.start.dashes
    /\ argv.start.url.valid
    /\ argv.maxPagesArg.given
    /\ ~ argv.maxPagesArg.isNaN
    /\ argv.maxPagesArg.n >= 2

SiteNext == StartNext \/ CrawlNext \/ ExtractSiteLinks \/ ExitNext

SpecSite == SiteInit /\ [][SiteNext]_vars

(***************************************************************************)
(* Report generation on its own: main when crawl has returned, with the    *)
(* page results a crawl can have accumulated.                              *)
(***************************************************************************)
RuleIds == << "image-alt", "label", "color-contrast", "link-name" >>
ResultUrls == << HomeUrl, PageA, PageB, PageC >>
ReportLighthouse == { NoLighthouse, 40, 95 }

\* The page results of up to MaxResults pages with at most MaxViolations
\* violations in all: page i has lens[i] violations, one per rule, whose
\* impacts are the next lens[i] entries of `impacts`.
ReportResults(lens, impacts, scores) ==
    [i \in 1..Len(lens) |->
        PageResult(ResultUrls[i],
                   [j \in 1..lens[i] |->
                       Violation(RuleIds[j],
                                 impacts[SumSeq(SubSeq(lens, 1, i - 1)) + j])],
                   scores[i])]

ReportInit ==
    /\ argv = [start |-> [present |-> TRUE, dashes |-> FALSE, url |-> StartUrl],
               maxPagesArg |-> [given |-> FALSE, isNaN |-> FALSE, n |-> 0]]
    /\ mpc = "report"
    /\ exitCode = NoExit
    /\ constructed = TRUE
    /\ baseUrl = ExampleOrigin
    /\ maxPages = DefaultMaxPages
    /\ browser = "open"
    /\ context = "open"
    /\ \E k \in 0..MaxResults :
           \E lens \in [1..k -> 0..MaxViolations] :
               /\ SumSeq(lens) <= MaxViolations
               /\ \E impacts \in [1..SumSeq(lens) -> ImpactValues],
                     scores \in [1..k -> ReportLighthouse] :
                      results = ReportResults(lens, impacts, scores)
    /\ visitedUrls = { results[i].url : i \in 1..Len(results) }
    /\ stack = << >>
    /\ openPages = 0
    /\ report = NoReport
    /\ written = FALSE
    /\ loadCount = [u \in CanonicalUrls |-> IF u \in visitedUrls THEN 1 ELSE 0]
    /\ analyzeCount = loadCount
    /\ extracted = { }
    /\ failed = { }
    /\ closeLog = << >>

SpecReport == ReportInit /\ [][ExitNext]_vars

(***************************************************************************)
(* The claims.                                                             *)
(***************************************************************************)
\* crawl(startUrl) has returned to main.
CrawlReturned == mpc = "report" \/ report.rendered

\* The top frame's loop has just had crawl(link) return.
BackFrom(link) ==
    /\ stack # << >>
    /\ Top.pc = "loop"
    /\ Top.link = link

\* C1: in every state of a session the visited set holds at most maxPages
\* URLs, whatever the budget.
VisitedWithinBudget == constructed => Cardinality(visitedUrls) <= maxPages

\* C2: a URL that is in the visited set stays there, and no URL is loaded
\* or analyzed more than once in a session, however often links reach it;
\* only reserved URLs are loaded.
EachUrlLoadedOnce ==
    \A u \in CanonicalUrls :
        /\ loadCount[u] <= 1
        /\ analyzeCount[u] <= 1
        /\ loadCount[u] > 0 => u \in visitedUrls
        /\ analyzeCount[u] > 0 => loadCount[u] > 0

IdempotentVisitation ==
    /\ [] EachUrlLoadedOnce
    /\ [][visitedUrls \subseteq visitedUrls']_vars

\* C2's case: page /b links to /a, which was reached and analyzed before
\* through another path; crawl(/a) has returned and /a was not loaded again.
ReachedTwice ==
    /\ BackFrom(PageA)
    /\ Top.url = PageB
    /\ ~ BudgetExhausted
    /\ loadCount[PageA] = 1
    /\ analyzeCount[PageA] = 1
    /\ \E i \in 1..Len(results) : results[i].url = PageA

\* A path that ends in a deny-listed extension, as written.
EndsInDeniedExtension(url) ==
    \E ext \in fileExtensions : endsWith(pathname(url), ext)

\* C3: a URL of another origin than the start URL's, or whose path ends in
\* a deny-listed extension, is never in the visited set, never loaded and
\* never analyzed.
OutOfScopeNeverVisited ==
    \A u \in CanonicalUrls :
        (u.origin # argv.start.url.origin \/ EndsInDeniedExtension(u))
            => /\ u \notin visitedUrls
               /\ loadCount[u] = 0
               /\ analyzeCount[u] = 0
               /\ \A i \in 1..Len(results) : results[i].url # u

\* C3's case: with budget left, the page /a, itself reached by a link,
\* carried a link to a PDF of the same origin; crawl was called with it and
\* did not reserve it.
OutOfScopeLinksMet ==
    /\ BackFrom(PdfLower)
    /\ Top.url = PageA
    /\ Len(stack) = 2
    /\ ~ BudgetExhausted
    /\ visitedUrls = { HomeUrl, PageA }
    /\ loadCount[PdfLower] = 0

\* The URL strings the normaliser is tried on.
TestUrls == SiteUrls \cup { StartUrl, PageAy, PageC, Malformed }

DifferOnlyInFragment(u, v) ==
    /\ u.valid
    /\ v.valid
    /\ u.origin = v.origin
    /\ pathname(u) = pathname(v)
    /\ u.frag # v.frag

\* C4: two valid URLs that differ only in the fragment have the same
\* normalizeUrl value, the URL without a fragment; the visited set never
\* holds two of them, and their page is loaded at most once.
FragmentsShareIdentity ==
    /\ \A u, v \in TestUrls :
           DifferOnlyInFragment(u, v)
               => /\ normalizeUrl(u) = normalizeUrl(v)
                  /\ normalizeUrl(u) = Url(u.origin, pathname(u), NoFrag)
    /\ \A u, v \in visitedUrls : ~ DifferOnlyInFragment(u, v)
    /\ \A u \in visitedUrls : u.valid => u.frag = NoFrag
    /\ \A u \in TestUrls :
           u.valid => loadCount[Url(u.origin, pathname(u), NoFrag)] <= 1

\* C4's case: the start page linked to /a, and /a links to /a#x; crawl(/a#x)
\* has returned and /a was loaded once.
FragmentVariantMet ==
    /\ BackFrom(PageAx)
    /\ Top.url = PageA
    /\ Len(stack) = 2
    /\ stack[1].link = PageA
    /\ ~ BudgetExhausted
    /\ loadCount[PageA] = 1
    /\ visitedUrls = { HomeUrl, PageA }

ResultUrlSet == { results[i].url : i \in 1..Len(results) }

\* crawl would reserve `url` if it were new and the budget allowed.
Crawlable(url) ==
    /\ isInternalUrl(normalizeUrl(url), baseUrl)
    /\ isWebPage(normalizeUrl(url))

\* The targets whose navigation or rule-based analysis threw.
FailedTargets == { f \in failed : f.stage \in { "goto", "analyze" } }

\* The URLs whose rule-based analysis returned.
AnalyzedUrls ==
    { u \in CanonicalUrls :
        /\ analyzeCount[u] > 0
        /\ ~ \E f \in failed : f.url = u /\ f.stage = "analyze" }

\* The report has one section per successfully analyzed page, and none for
\* a failed target.
ReportOmitsOnlyFailures ==
    report.rendered
        => /\ Len(report.sections) = Cardinality(AnalyzedUrls)
           /\ { report.sections[i].url : i \in 1..Len(report.sections) }
                  = AnalyzedUrls
           /\ \A f \in FailedTargets :
                  \A i \in 1..Len(report.sections) :
                      report.sections[i].url # f.url

\* C5 as stated: a target whose navigation or analysis threw is in no
\* result, and when crawl has returned every link that followed it in its
\* parent's list has been visited (if crawl accepts such a link at all);
\* the report holds exactly the successfully analyzed pages.
FailureLeavesSiblingsVisited ==
    /\ \A f \in FailedTargets : f.url \notin ResultUrlSet
    /\ CrawlReturned
           => \A f \in FailedTargets : \A s \in f.siblings :
                  Crawlable(s) => normalizeUrl(s) \in visitedUrls
    /\ ReportOmitsOnlyFailures

\* C5, amended: as above, but a link that followed the failed target is
\* left unvisited when the budget, which the failed target's reservation
\* still counts against, is exhausted.
FailureSkipsOnlyTheTarget ==
    /\ \A f \in FailedTargets : f.url \notin ResultUrlSet
    /\ CrawlReturned
           => \A f \in FailedTargets : \A s \in f.siblings :
                  \/ ~ Crawlable(s)
                  \/ normalizeUrl(s) \in visitedUrls
                  \/ BudgetExhausted
    /\ ReportOmitsOnlyFailures

\* C5's case: the start page linked to /a and then to /b; navigation to /a
\* threw; /b was visited afterwards and the report holds the start page and
\* /b.
SiblingVisitedAfterFailure ==
    /\ report.rendered
    /\ \E f \in failed :
           /\ f.url = PageA
           /\ f.stage = "goto"
           /\ PageB \in f.siblings
    /\ Len(report.sections) = 2
    /\ report.sections[1].url = HomeUrl
    /\ report.sections[2].url = PageB

\* The links of `links` that crawl accepts when new, normalised.
InScopeLinks(links) ==
    LET accepted == SelectSeq(links, Crawlable)
    IN  [i \in 1..Len(accepted) |-> normalizeUrl(accepted[i])]

\* The list extractLinks returned for `url`.
LinksOf(url) == (CHOOSE e \in extracted : e.url = url).links

\* The scenario of C6 has run to the end of the crawl: budget 3, a start
\* page with two links into the site, one to another origin and one to a
\* PDF, and no call that threw.
ScenarioDone ==
    /\ CrawlReturned
    /\ maxPages = 3
    /\ argv.start.url = StartUrl
    /\ failed = { }
    /\ \E e \in extracted : e.url = HomeUrl
    /\ LinksOf(HomeUrl) \in Orderings({ PageA, PageB, Foreign, PdfLower })

ScenarioNeverLeavesScope ==
    /\ loadCount[Foreign] = 0
    /\ loadCount[PdfLower] = 0
    /\ Foreign \notin visitedUrls
    /\ PdfLower \notin visitedUrls
    /\ Cardinality(visitedUrls) <= 3

ScenarioThird ==
    LET second == InScopeLinks(LinksOf(HomeUrl))[1]
        other == InScopeLinks(LinksOf(HomeUrl))[2]
        new == SelectSeq(InScopeLinks(LinksOf(second)),
                         LAMBDA u : u \notin { HomeUrl, second })
    IN  IF new # << >> THEN new[1] ELSE other

CleanupOnEveryExit ==
    (mpc = "exited" /\ browser # "null")
        => /\ browser = "closed"
           /\ context # "null" => context = "closed"
           /\ closeLog \in { << CloseCall("browser", TRUE) >>,
                             << CloseCall("context", TRUE),
                                CloseCall("browser", TRUE) >> }

\* C8: when a close call of the cleanup has failed, closing every held
\* resource was still attempted, and the session's exit code is what it is
\* without the failure: 0 after a written report.
CleanupTriesEveryResource ==
    (mpc = "exited" /\ \E i \in 1..Len(closeLog) : ~ closeLog[i].ok)
        => /\ context # "null"
               => \E i \in 1..Len(closeLog) : closeLog[i].what = "context"
           /\ browser # "null"
               => \E i \in 1..Len(closeLog) : closeLog[i].what = "browser"
           /\ written => exitCode = 0

\* C9: in every section of the report the rendered severity groups hold
\* every violation of the page exactly once.
GroupsPartitionViolations ==
    report.rendered
        => \A i \in 1..Len(results) :
               LET groups == report.sections[i].groups
                   violations == results[i].violations
               IN  /\ SumSeq([g \in 1..Len(groups) |->
                                 Len(groups[g].violations)])
                          = Len(violations)
                   /\ \A v \in Range(violations) :
                          Cardinality({ g \in 1..Len(groups) :
                              v \in Range(groups[g].violations) }) = 1

\* C10: the process ends with code 0 when the crawl has returned and the
\* report was written, also with no page result; with code 1 after a usage
\* error, a malformed start URL or a failed browser launch; and a usage
\* error ends it before the crawler exists.
ExitCodes ==
    mpc = "exited"
        => /\ written => exitCode = 0
           /\ UsageError(argv.start) => exitCode = 1 /\ ~ constructed
           /\ ~ argv.start.url.valid => exitCode = 1
           /\ (constructed /\ (browser = "null" \/ context = "null"))
                  => exitCode = 1
           /\ exitCode \in { 0, 1 }

\* C11: a page with zero violations has the no-violations indicator in its
\* section and no violations section; a page with violations has the
\* violations section and no indicator.
NoViolationsIndicator ==
    report.rendered
        => \A i \in 1..Len(results) :
               LET section == report.sections[i]
               IN  IF Len(results[i].violations) = 0
                   THEN /\ section.noViolations
                        /\ ~ section.violationsSection
                        /\ section.groups = << >>
                   ELSE /\ ~ section.noViolations
                        /\ section.violationsSection

\* C11's case: a report of a page without violations and a page with one.
CleanAndDirtyPageRendered ==
    /\ report.rendered
    /\ Len(results) = 2
    /\ results[1].violations = << >>
    /\ Len(results[2].violations) = 1
    /\ report.sections[1].noViolations
    /\ report.sections[2].violationsSection

\* The position of impact `impact` in the order critical, serious,
\* moderate, minor.
SeverityRank(impact) == CHOOSE i \in 1..Len(Impacts) : Impacts[i] = impact

\* The position of violation v in the list the engine reported.
EngineRank(v, violations) ==
    CHOOSE i \in 1..Len(violations) : violations[i] = v

\* C12: a second render of the accumulated results gives the report again;
\* the sections are in session order, the groups of a section in the order
\* critical, serious, moderate, minor, and the violations of a group in the
\* order the engine reported them.
RenderIsDeterministic ==
    report.rendered
        => /\ generateMarkdownReport(results) = report
           /\ Len(report.sections) = Len(results)
           /\ \A i \in 1..Len(results) :
                  LET groups == report.sections[i].groups
                  IN  /\ report.sections[i].url = results[i].url
                      /\ \A g, h \in 1..Len(groups) :
                             g < h => SeverityRank(groups[g].impact)
                                          < SeverityRank(groups[h].impact)
                      /\ \A g \in 1..Len(groups) :
                             \A a, b \in 1..Len(groups[g].violations) :
                                 a < b =>
                                     EngineRank(groups[g].violations[a],
                                                results[i].violations)
                                       < EngineRank(groups[g].violations[b],
                                                    results[i].violations)

\* C12's case: a report of two pages, the first of which has a minor
\* violation reported before a critical one, rendered critical first.
GroupsReordered ==
    /\ report.rendered
    /\ Len(results) = 2
    /\ Len(results[1].violations) = 2
    /\ results[1].violations[1].impact = "minor"
    /\ results[1].violations[2].impact = "critical"
    /\ Len(report.sections[1].groups) = 2
    /\ report.sections[1].groups[1].impact = "critical"

\* A page load starts in this step, and the URLs it starts for.
LoadStarted(u) == loadCount'[u] > loadCount[u]

\* C13: a page load starts only for a URL that is in the visited set and
\* was never loaded before, a crawl call inside its try block has its URL
\* in the visited set, and a target that failed was loaded at most once.
ReservedBeforeNavigation ==
    /\ [][\A u \in CanonicalUrls :
              LoadStarted(u) => u \in visitedUrls /\ loadCount[u] = 0]_vars
    /\ [](\A i \in 1..Len(stack) : stack[i].url \in visitedUrls)
    /\ [](\A f \in failed : f.url \in visitedUrls /\ loadCount[f.url] <= 1)

\* C13's case: navigation to /a threw, and a link to /a read later, on
\* another page and with budget left, was rejected.
FailedTargetMetAgain ==
    /\ \E f \in failed : f.url = PageA /\ f.stage = "goto"
    /\ BackFrom(PageA)
    /\ Top.url = PageB
    /\ ~ BudgetExhausted
    /\ loadCount[PageA] = 1

\* The URLs of the page results, in the order of the result sequence.
ResultUrlSeq == [i \in 1..Len(results) |-> results[i].url]

\* The crawl of u ended before its page result was appended.
FailedEarly(u) ==
    \E f \in failed : f.url = u /\ f.stage \in { "newPage", "goto", "analyze" }

\* The crawl of u ended after its page result was appended and before its
\* links were visited.
FailedLate(u) ==
    \E f \in failed :
        f.url = u /\ f.stage \in { "extractLinks", "closePage", "closeOnly" }

\* The links extracted from u, in order; none when none were extracted.
LinksFrom(u) ==
    IF \E e \in extracted : e.url = u THEN LinksOf(u) ELSE << >>

\* The depth-first walk of the link graph from `url` with `budget`
\* reservations: w holds the URLs reserved so far and the preorder of the
\* pages analyzed so far.  A target that failed early is reserved and gives
\* no result; a page is expanded when budget is left after its reservation
\* and its crawl did not fail.
RECURSIVE Walk(_, _, _), WalkLinks(_, _, _)
Walk(url, w, budget) ==
    LET u == normalizeUrl(url)
        reserved == [seen |-> w.seen \cup { u }, out |-> w.out]
        analyzed == [seen |-> w.seen \cup { u }, out |-> Append(w.out, u)]
    IN  IF Cardinality(w.seen) >= budget \/ u \in w.seen \/ ~ Crawlable(url)
        THEN w
        ELSE IF FailedEarly(u)
        THEN reserved
        ELSE IF Cardinality(analyzed.seen) < budget /\ ~ FailedLate(u)
        THEN WalkLinks(LinksFrom(u), analyzed, budget)
        ELSE analyzed

WalkLinks(links, w, budget) ==
    IF links = << >> \/ Cardinality(w.seen) >= budget
    THEN w
    ELSE LET next == Walk(Head(links), w, budget)
         IN  WalkLinks(Tail(links), next, budget)

NothingWalked == [seen |-> { }, out |-> << >>]

\* The first n elements of s, or all of s when it is shorter.
Truncated(s, n) == SubSeq(s, 1, IF Len(s) < n THEN Len(s) ELSE n)

\* Inside a running crawl a page's result is appended before its links are
\* extracted, the callers are all in their loops, and the result of a
\* caller precedes the results of the calls below it.
ResultBeforeLinks ==
    \A i \in 1..Len(stack) :
        /\ stack[i].pc \in { "extractLinks", "closePage", "loop", "closeOnly" }
               => \E k \in 1..Len(results) : results[k].url = stack[i].url
        /\ i < Len(stack) => stack[i].pc = "loop"
        /\ \A j \in 1..Len(stack), k, l \in 1..Len(results) :
               (i < j /\ results[k].url = stack[i].url
                      /\ results[l].url = stack[j].url) => k < l

\* C14 as stated: a result is appended before the page's links are
\* visited, and when crawl returns the result sequence is the depth-first
\* preorder of the link graph, without the targets that failed, cut at the
\* budget.
PreorderCutAtBudget ==
    /\ ResultBeforeLinks
    /\ mpc = "report"
           => ResultUrlSeq =
                  Truncated(
                      Walk(argv.start.url, NothingWalked,
                           Cardinality(CanonicalUrls) + 1).out,
                      maxPages)

\* C14, amended: a result is appended before the page's links are visited,
\* and when crawl returns the result sequence is the depth-first preorder
\* of the walk in which every reserved target counts against the budget, a
\* target that failed before its analysis ended has no result, and the
\* links of a page whose crawl failed later are not visited.
DepthFirstResults ==
    /\ ResultBeforeLinks
    /\ mpc = "report"
           => LET walked == Walk(argv.start.url, NothingWalked, maxPages)
              IN  /\ ResultUrlSeq = walked.out
                  /\ visitedUrls = walked.seen

\* C14's case: with budget 3 the start page's first link into the site is
\* /a, /a links to /c, the analysis of /c threw, and crawl has returned with
\* the start page and /a as its results and /b never reserved.
DeepTargetFailed ==
    /\ mpc = "report"
    /\ maxPages = 3
    /\ ResultUrlSeq = << HomeUrl, PageA >>
    /\ LinksFrom(PageA) = << PageC >>
    /\ \E f \in failed : f.url = PageC /\ f.stage = "analyze"
    /\ visitedUrls = { HomeUrl, PageA, PageC }

\* C15: at every point of a session at most one page handle is open.
AtMostOnePageOpen == openPages <= 1

\* C16: when the score-based engine throws on a page, the page's result is
\* appended with the violations of the rule-based engine and no score, no
\* crawl call fails or returns, nothing is reserved, and the page goes on to
\* link extraction when budget is left, as it does after a score.
ScoreFailureRecovered ==
    [][LighthouseThrows
           => /\ results' = Append(results,
                                   [url |-> Top.url,
                                    violations |-> Top.axe,
                                    lighthouse |-> NoLighthouse])
              /\ failed' = failed
              /\ visitedUrls' = visitedUrls
              /\ Len(stack') = Len(stack)
              /\ stack'[Len(stack)].url = Top.url
              /\ stack'[Len(stack)].pc =
                     IF Cardinality(visitedUrls) < maxPages
                     THEN "extractLinks"
                     ELSE "closeOnly"
              /\ \E score \in CrawlLighthouse \ { NoLighthouse } :
                     ENABLED (/\ Lighthouse
                              /\ results'[Len(results')].lighthouse = score
                              /\ stack'[Len(stack')].pc = "extractLinks")
                         <=> Cardinality(visitedUrls) < maxPages]_vars

\* C16's case: the start page has violations and no score, nothing failed,
\* and a page it links to has been analyzed after it.
ScorelessPageExpanded ==
    /\ Len(results) = 2
    /\ results[1].url = HomeUrl
    /\ results[1].lighthouse = NoLighthouse
    /\ results[1].violations # << >>
    /\ results[2].url = PageA
    /\ failed = { }

\* The crawl is running with as many URLs reserved as the budget allows.
ExhaustedInCrawl ==
    /\ constructed
    /\ mpc \in { "crawl", "crawling" }
    /\ Cardinality(visitedUrls) >= maxPages

\* C17: once the visited set has reached maxPages no URL is reserved, no
\* crawl call enters its try block, no link is read from any pending list,
\* no links are extracted, the only page opened or loaded is that of the
\* URL reserved last, which is closed without link extraction, and crawl
\* goes on to return to main, which goes on to the report.
BudgetStopsSession ==
    /\ [](ExhaustedInCrawl
              => \A i \in 1..Len(stack) : stack[i].pc # "extractLinks")
    /\ [][ExhaustedInCrawl
              => /\ visitedUrls' = visitedUrls
                 /\ Len(stack') <= Len(stack)
                 /\ \A i \in 1..Len(stack') :
                        /\ stack'[i].url = stack[i].url
                        /\ stack'[i].links = stack[i].links
                        /\ stack'[i].link = stack[i].link
                        /\ stack'[i].pc \notin { "extractLinks", "closePage" }
                               \/ stack'[i].pc = stack[i].pc
                 /\ extracted' = extracted
                 /\ \A u \in CanonicalUrls :
                        LoadStarted(u) => stack # << >> /\ u = Top.url
                 /\ openPages' > openPages
                        => stack # << >> /\ Top.pc = "newPage"
                 /\ mpc' \in { "crawling", "report" }
                 /\ exitCode' = NoExit]_vars

\* C17's case: with budget 3 the third URL was reserved below the second
\* page and its crawl has returned, and both the second page and the start
\* page have links left.
SiblingsPendingAtTwoLevels ==
    /\ mpc = "crawling"
    /\ maxPages = 3
    /\ Cardinality(visitedUrls) = 3
    /\ Len(results) = 3
    /\ Len(stack) = 2
    /\ Top.pc = "loop"
    /\ Top.links # << >>
    /\ stack[1].links # << >>

\* A candidate crawl has to reject: its URL without the fragment is
\* visited, or it is of another origin than the start URL, or its path
\* ends in a deny-listed extension, or the budget is exhausted.
MustReject(url) ==
    \/ Url(url.origin, url.path, NoFrag) \in visitedUrls
    \/ Url(url.origin, IF url.path = << >> THEN << "/" >> ELSE url.path,
           NoFrag) \in visitedUrls
    \/ url.origin # argv.start.url.origin
    \/ EndsInDeniedExtension(url)
    \/ Cardinality(visitedUrls) >= maxPages

\* The call leaves the crawler as it found it and opens no page.
NothingDone ==
    /\ visitedUrls' = visitedUrls
    /\ results' = results
    /\ openPages' = openPages
    /\ loadCount' = loadCount
    /\ analyzeCount' = analyzeCount
    /\ failed' = failed

\* C18: a crawl call with a candidate that is already visited, out of
\* scope or not document-like, or with the budget exhausted, returns to its
\* caller at once: the visited set and the result sequence are unchanged
\* and no page is opened.
RejectionIsNoOp ==
    /\ [][(MainCrawl /\ MustReject(argv.start.url))
              => stack' = << >> /\ NothingDone]_vars
    /\ [][(LoopCrawl /\ MustReject(stack'[Len(stack)].link))
              => Len(stack') = Len(stack) /\ NothingDone]_vars

\* C18's case: the start page's loop has had crawl return for a link to
\* another origin, with budget left: only the start page is visited and
\* has a result, and no page is open.
ForeignLinkRejected ==
    /\ BackFrom(Foreign)
    /\ Len(stack) = 1
    /\ ~ BudgetExhausted
    /\ visitedUrls = { HomeUrl }
    /\ Len(results) = 1
    /\ openPages = 0
    /\ failed = { }

\* C19: whatever the order in which the awaited steps of the crawl calls
\* run, the sequential order of the program included, the visited set
\* never holds more than maxPages URLs and no URL is loaded twice.
ReservationNeverOverruns ==
    /\ constructed => Cardinality(visitedUrls) <= maxPages
    /\ \A u \in CanonicalUrls : loadCount[u] <= 1
    /\ \A i, j \in 1..Len(stack) : i # j => stack[i].url # stack[j].url

\* C20: the budget the crawler runs with is an integer of at least 0, is
\* 10 when --max-pages is absent or not a number, and stays what it was
\* set to when the crawler was constructed.
BudgetFixedNonNegative ==
    constructed
        => /\ maxPages \in Nat
           /\ (~ argv.maxPagesArg.given \/ argv.maxPagesArg.isNaN)
                  => maxPages = 10
           /\ (argv.maxPagesArg.given /\ ~ argv.maxPagesArg.isNaN
                  /\ argv.maxPagesArg.n > 0)
                  => maxPages = argv.maxPagesArg.n
\* The violations of all the page results, as (page, index) pairs.
ViolationsAcross(rs) ==
    UNION { { << i, j >> : j \in 1..Len(rs[i].violations) } : i \in 1..Len(rs) }

ViolationsWithImpact(rs, impact) ==
    { p \in ViolationsAcross(rs) : rs[p[1]].violations[p[2]].impact = impact }

\* C21: the summary of a rendered report is computed over all the page
\* results: the page count is their number, the total is the number of
\* violations of all pages, the critical and serious counts are the numbers
\* of violations of that impact on all pages, and the average score is the
\* not-available value exactly when no page result has a score.
SummaryOverAllResults ==
    report.rendered
        => /\ report.pagesAnalyzed = Len(results)
           /\ report.totalViolations = Cardinality(ViolationsAcross(results))
           /\ report.criticalIssues
                  = Cardinality(ViolationsWithImpact(results, "critical"))
           /\ report.seriousIssues
                  = Cardinality(ViolationsWithImpact(results, "serious"))
           /\ report.avgLighthouseScore = NotAvailable
                  <=> \A i \in 1..Len(results) :
                          results[i].lighthouse = NoLighthouse

\* A report of two pages: the first has a critical violation and no score,
\* the second a serious violation and a score of 40.
SummaryOfTwoPagesRendered ==
    /\ report.rendered
    /\ Len(results) = 2
    /\ results[1].lighthouse = NoLighthouse
    /\ results[2].lighthouse = 40
    /\ Len(results[1].violations) = 1
    /\ results[1].violations[1].impact = "critical"
    /\ Len(results[2].violations) = 1
    /\ results[2].violations[1].impact = "serious"
    /\ report.totalViolations = 2
    /\ report.criticalIssues = 1
    /\ report.avgLighthouseScore = 400
\* No crawl call is running: none was made yet, or the first one returned.
NoTargetInFlight == stack = << >>

\* The reserved targets whose crawl ended before the result was appended.
FailedBeforeResult == { u \in visitedUrls : FailedEarly(u) }

\* C22: a failed target stays in the visited set; whenever no crawl call is
\* running, the number of page results plus the number of reserved targets
\* that failed before their result was appended is the size of the visited
\* set, every page result's URL is in the visited set, and no two page
\* results have the same URL.
ReservationsAccounted ==
    /\ \A f \in failed : f.url \in visitedUrls
    /\ NoTargetInFlight
           => /\ Len(results) + Cardinality(FailedBeforeResult)
                     = Cardinality(visitedUrls)
              /\ \A i \in 1..Len(results) : results[i].url \in visitedUrls
              /\ \A i, j \in 1..Len(results) :
                     results[i].url = results[j].url => i = j

\* The crawl returned with two page results and a third target whose
\* navigation failed: the three of them fill a budget of three.
FailedTargetCountedInBudget ==
    /\ mpc = "report"
    /\ NoTargetInFlight
    /\ maxPages = 3
    /\ Len(results) = 2
    /\ Cardinality(visitedUrls) = 3
    /\ \E f \in failed : f.stage = "goto" /\ f.url \in visitedUrls
\* The program when every awaited call returns or throws and the event loop
\* resumes whatever waits for it: a step that can be taken is taken.
SpecLive == Spec /\ WF_vars(Next)

\* The number of page loads: the navigations started, failed ones included.
RECURSIVE SumLoads(_)
SumLoads(urls) ==
    IF urls = { }
    THEN 0
    ELSE LET u == CHOOSE v \in urls : TRUE
         IN  loadCount[u] + SumLoads(urls \ { u })

PageLoads == SumLoads(CanonicalUrls)

\* Once main has called crawl(startUrl), the call returns to main.
CrawlEventuallyReturns == (mpc = "crawling") ~> (mpc = "report")

\* When crawl(startUrl) has returned, at most maxPages pages were loaded.
LoadsWithinBudget == mpc = "report" => PageLoads <= maxPages

\* C23: whatever the links of the pages, cycles included, and whatever the
\* budget, when every awaited call returns or throws, crawl(startUrl)
\* returns to main, and it has loaded at most maxPages pages when it does.
CrawlReturnsWithinBudget == CrawlEventuallyReturns /\ [] LoadsWithinBudget
=============================================================================
